---- MODULE Spec2Model ----
(***************************************************************************)
(* A model of notifieru: the .secrets parser (src/secrets.rs) and the      *)
(* response-to-report pass (src/main.rs).                                  *)
(*                                                                         *)
(* A Rust String / &str is a sequence of characters, each character a      *)
(* one-character TLA+ string.  Option<T> and Result<T, E> are records.     *)
(***************************************************************************)
EXTENDS Integers, Sequences, FiniteSets, TLC

VARIABLES
    (* parse_secrets *)
    consumed,       \* the lines file.lines() has yielded so far, in order
    db_url,         \* let mut db_url: Option<String>
    api_key,        \* let mut api_key: Option<String>
    secrets_ret,    \* None while parse_secrets runs, Some(result) once it returned
    (* push_datetime *)
    datetime,       \* the argument datetime: &str
    buf,            \* the argument buf: &mut String
    dt_pc,          \* "idle", "call", "returned" or "panicked"
    (* process_todos *)
    json,           \* the parsed response body
    i,              \* the enumerate() index of the next record
    errors,         \* let mut errors: Vec<String>
    channel,        \* what println!/eprintln! wrote so far, in order
    todos_pc,       \* "idle", "start", "loop", "returned" or "panicked"
    todos_ret       \* None while process_todos runs, Some(result) once it returned

vars == << consumed, db_url, api_key, secrets_ret, datetime, buf, dt_pc,
           json, i, errors, channel, todos_pc, todos_ret >>

secretsVars == << consumed, db_url, api_key, secrets_ret >>
dateVars    == << datetime, buf, dt_pc >>
todosVars   == << json, i, errors, channel, todos_pc, todos_ret >>

(***************************************************************************)
(* Bounds of the model.                                                    *)
(***************************************************************************)
MaxLines   == 3     \* lines in the secrets stream
MaxDateLen == 9     \* characters of a datetime argument
MaxTodos   == 2     \* records in the "results" array

(***************************************************************************)
(* Option and Result.                                                      *)
(***************************************************************************)
None    == [some |-> FALSE, val |-> <<>>]
Some(x) == [some |-> TRUE, val |-> x]
Ok(x)   == [ok |-> TRUE, val |-> x]
Err(e)  == [ok |-> FALSE, val |-> e]

(***************************************************************************)
(* str::trim, str::split_once.                                             *)
(***************************************************************************)
IsWhitespace(c) == c \in {" ", "\t"}

RECURSIVE TrimStart(_)
TrimStart(s) ==
    IF s # <<>> /\ IsWhitespace(Head(s)) THEN TrimStart(Tail(s)) ELSE s

RECURSIVE TrimEnd(_)
TrimEnd(s) ==
    IF s # <<>> /\ IsWhitespace(s[Len(s)])
    THEN TrimEnd(SubSeq(s, 1, Len(s) - 1))
    ELSE s

Trim(s) == TrimEnd(TrimStart(s))

\* The 1-based position of the first d in s, 0 when s holds none.
FindChar(s, d) ==
    IF \E k \in 1..Len(s) : s[k] = d
    THEN CHOOSE k \in 1..Len(s) : s[k] = d /\ \A j \in 1..(k - 1) : s[j] # d
    ELSE 0

\* str::rsplit_once in place of split_once.
SplitOnce_Last(s, d) ==
    IF \A k \in 1..Len(s) : s[k] # d
    THEN None
    ELSE LET k == CHOOSE k \in 1..Len(s) : s[k] = d /\ \A j \in (k + 1)..Len(s) : s[j] # d
         IN  Some(<< SubSeq(s, 1, k - 1), SubSeq(s, k + 1, Len(s)) >>)

SplitOnce(s, d) ==
    LET k == FindChar(s, d)
    IN  IF k = 0
        THEN None
        ELSE Some(<< SubSeq(s, 1, k - 1), SubSeq(s, k + 1, Len(s)) >>)

(***************************************************************************)
(* src/secrets.rs                                                          *)
(***************************************************************************)
FILEPATH_PLACEHOLDER == "<secrets_file>"
KEY_VAL_DELIM == "="
DB_URL  == << "D", "B", "_", "U", "R", "L" >>
API_KEY == << "A", "P", "I", "_", "K", "E", "Y" >>

\* A formatted error message: the template's fixed text and what fills its
\* placeholders.  key is <<>> and line is 0 in a template without that
\* placeholder (lines are numbered from 1).
ErrMsg(text, key, file, line) ==
    [text |-> text, key |-> key, file |-> file, line |-> line]

Secret(d, a) == [db_url |-> d, api_key |-> a]

check_val_empty(value, file, line) ==
    IF value = <<>>
    THEN Err(ErrMsg("value is empty at", <<>>, file, line))
    ELSE Ok(Trim(value))

\* let i = i + 1: the line number of the line of enumerate() index idx.
LineNo_ZeroBased(idx) == idx

LineNo(idx) == idx + 1

\* One iteration of the for loop of parse_secrets on `line`, the n-th line
\* (n counted from 1): the new db_url and api_key, and the early return if any.
ParseLine(st, line, n, file_name) ==
    LET sp == SplitOnce(line, KEY_VAL_DELIM)
        key == sp.val[1]
        value == sp.val[2]
        checked == check_val_empty(value, file_name, n)
    IN  IF ~sp.some
        THEN [st EXCEPT !.ret = Some(Err(ErrMsg("invalid line format at", <<>>, file_name, n)))]
        ELSE IF Trim(key) = DB_URL
        THEN IF checked.ok
             THEN [st EXCEPT !.db_url = Some(checked.val)]
             ELSE [st EXCEPT !.ret = Some(checked)]
        ELSE IF Trim(key) = API_KEY
        THEN IF checked.ok
             THEN [st EXCEPT !.api_key = Some(checked.val)]
             ELSE [st EXCEPT !.ret = Some(checked)]
        ELSE [st EXCEPT !.ret = Some(Err(ErrMsg("unexpected key", key, file_name, n)))]

\* The two missing-key checks in the other order.
Finish_ApiKeyFirst(d, a, file_name) ==
    IF ~a.some
    THEN Err(ErrMsg("API_KEY value not found in", <<>>, file_name, 0))
    ELSE IF ~d.some
    THEN Err(ErrMsg("DB_URL value not found in", <<>>, file_name, 0))
    ELSE Ok(Secret(d.val, a.val))

\* What parse_secrets returns once the lines are exhausted.
Finish(d, a, file_name) ==
    IF ~d.some
    THEN Err(ErrMsg("DB_URL value not found in", <<>>, file_name, 0))
    ELSE IF ~a.some
    THEN Err(ErrMsg("API_KEY value not found in", <<>>, file_name, 0))
    ELSE Ok(Secret(d.val, a.val))

\* The lines the stream may yield: a key text, the delimiter or nothing, and
\* a value text.
ValueTexts ==
    { <<>>, << " " >>, << "v" >>, << " ", "v", " " >>, << "v", "=", "w" >> }
KeyTexts == { DB_URL, <<" ">> \o API_KEY \o <<" ">>, <<"K">> }

SeqsUpTo(S, n) == UNION { [1..k -> S] : k \in 0..n }

LineSet ==
    { k \o d \o r : k \in KeyTexts, d \in {<<>>, <<KEY_VAL_DELIM>>},
                    r \in ValueTexts }

\* parse_secrets is entered; push_datetime and process_todos are not running.
InitSecrets ==
    /\ consumed = <<>>
    /\ db_url = None
    /\ api_key = None
    /\ secrets_ret = None
    /\ datetime = <<>> /\ buf = <<>> /\ dt_pc = "idle"
    /\ json = None /\ i = 0 /\ errors = <<>> /\ channel = <<>>
    /\ todos_pc = "idle" /\ todos_ret = None

\* file.lines() yields Some(line): one pass through the loop body.
ReadLine ==
    /\ ~secrets_ret.some
    /\ Len(consumed) < MaxLines
    /\ \E line \in LineSet :
         LET n  == LineNo(Len(consumed))
             st == ParseLine([db_url |-> db_url, api_key |-> api_key, ret |-> None],
                             line, n, FILEPATH_PLACEHOLDER)
         IN  /\ consumed' = Append(consumed, line)
             /\ db_url' = st.db_url
             /\ api_key' = st.api_key
             /\ secrets_ret' = st.ret
    /\ UNCHANGED << dateVars, todosVars >>

\* file.lines() yields None: the loop ends and the missing-key checks run.
EndOfFile ==
    /\ ~secrets_ret.some
    /\ secrets_ret' = Some(Finish(db_url, api_key, FILEPATH_PLACEHOLDER))
    /\ UNCHANGED << consumed, db_url, api_key, dateVars, todosVars >>

NextSecrets == ReadLine \/ EndOfFile

SpecSecrets == InitSecrets /\ [][NextSecrets]_vars

(***************************************************************************)
(* src/main.rs: push_datetime                                              *)
(***************************************************************************)
TimeLen == 8        \* &t[..8]

\* The UTF-8 width of a character, in bytes.
ByteWidth(c) == IF c \in {"é"} THEN 2 ELSE 1

RECURSIVE ByteLen(_)
ByteLen(s) == IF s = <<>> THEN 0 ELSE ByteWidth(Head(s)) + ByteLen(Tail(s))

\* &s[..n]: the characters of the first n bytes; None where the slice panics
\* (s is shorter than n bytes, or byte n falls inside a character).
SliceTo(s, n) ==
    IF \E k \in 0..Len(s) : ByteLen(SubSeq(s, 1, k)) = n
    THEN Some(SubSeq(s, 1, CHOOSE k \in 0..Len(s) : ByteLen(SubSeq(s, 1, k)) = n))
    ELSE None

\* The buffer push_datetime leaves, None where it panics.
push_datetime(dt, b) ==
    LET f == SplitOnce(dt, "T")
        ymd == f.val[1]
        t == f.val[2]
    IN  IF f.some
        THEN IF SliceTo(t, TimeLen).some
             THEN Some(b \o ymd \o <<" ">> \o SliceTo(t, TimeLen).val)
             ELSE None
        ELSE Some(b \o dt)

DateAlphabet == {"T", "0", "é"}
BufInits == { <<>>, << " ", "~", " " >> }

\* push_datetime is called; parse_secrets and process_todos are not running.
InitDate ==
    /\ datetime \in SeqsUpTo(DateAlphabet, MaxDateLen)
    /\ buf \in BufInits
    /\ dt_pc = "call"
    /\ consumed = <<>> /\ db_url = None /\ api_key = None /\ secrets_ret = None
    /\ json = None /\ i = 0 /\ errors = <<>> /\ channel = <<>>
    /\ todos_pc = "idle" /\ todos_ret = None

PushReturns ==
    /\ dt_pc = "call"
    /\ push_datetime(datetime, buf).some
    /\ buf' = push_datetime(datetime, buf).val
    /\ dt_pc' = "returned"
    /\ UNCHANGED << datetime, secretsVars, todosVars >>

PushPanics ==
    /\ dt_pc = "call"
    /\ ~push_datetime(datetime, buf).some
    /\ dt_pc' = "panicked"
    /\ UNCHANGED << datetime, buf, secretsVars, todosVars >>

NextDate == PushReturns \/ PushPanics

SpecDate == InitDate /\ [][NextDate]_vars

(***************************************************************************)
(* serde_json::Value as process_todos reads it.                            *)
(***************************************************************************)
JNull    == [t |-> "null", v |-> <<>>]
JBool(b) == [t |-> "bool", v |-> b]
JNum(n)  == [t |-> "number", v |-> n]
JStr(s)  == [t |-> "string", v |-> s]
JArr(a)  == [t |-> "array", v |-> a]
JObj(o)  == [t |-> "object", v |-> o]

\* value["key"]: Null unless value is an object holding the key.
Index(value, key) ==
    IF value.t = "object" /\ key \in DOMAIN value.v THEN value.v[key] ELSE JNull

\* value[n]: Null unless value is an array longer than n.
IndexAt(value, n) ==
    IF value.t = "array" /\ n + 1 <= Len(value.v) THEN value.v[n + 1] ELSE JNull

as_str(value)   == IF value.t = "string" THEN Some(value.v) ELSE None
\* A checkbox that is no boolean read as unchecked.
as_bool_OrFalse(value) == IF value.t = "bool" THEN Some(value.v) ELSE Some(FALSE)

as_bool(value)  == IF value.t = "bool" THEN Some(value.v) ELSE None
as_array(value) == IF value.t = "array" THEN Some(value.v) ELSE None

(***************************************************************************)
(* src/main.rs: process_todos                                              *)
(***************************************************************************)
TitleWidth == 35    \* {:35}

Digits == << "0", "1", "2", "3", "4", "5", "6", "7", "8", "9" >>

\* usize as format! displays it.
RECURSIVE Dec(_)
Dec(n) == IF n < 10 THEN << Digits[n + 1] >>
          ELSE Dec(n \div 10) \o << Digits[(n % 10) + 1] >>

\* {:w} on a string: spaces appended up to w characters, nothing removed.
PadTo(s, w) == IF Len(s) >= w THEN s ELSE s \o [k \in 1..(w - Len(s)) |-> " "]

TitleErrorText ==
    << ":", " ", "m", "i", "s", "s", "i", "n", "g", " ", "o", "r", " ",
       "i", "n", "v", "a", "l", "i", "d", " ", "t", "i", "t", "l", "e" >>
DoneErrorText ==
    << ":", " ", "m", "i", "s", "s", "i", "n", "g", " ", "o", "r", " ",
       "i", "n", "v", "a", "l", "i", "d", " ", "'", "D", "o", "n", "e", "'",
       " ", "c", "h", "e", "c", "k", "b", "o", "x" >>
Banner ==
    << "E", "r", "r", "o", "r", "s", " ", "e", "n", "c", "o", "u", "n", "t",
       "e", "r", "e", "d", " ", "w", "h", "i", "l", "e", " ", "p", "r", "o",
       "c", "e", "s", "s", "i", "n", "g", " ", "t", "o", "d", "o", "s", ":" >>
PanicText == << "p", "a", "n", "i", "c", "k", "e", "d" >>

TitleError(idx) == << "t", "o", "d", "o", " " >> \o Dec(idx) \o TitleErrorText
DoneError(idx)  == << "t", "o", "d", "o", " " >> \o Dec(idx) \o DoneErrorText

\* format!("[{}] {}: {:35} | ", if done { "x" } else { " " }, i, title)
LineHead(done, idx, title) ==
    << "[", (IF done THEN "x" ELSE " "), "]", " " >> \o Dec(idx)
        \o << ":", " " >> \o PadTo(title, TitleWidth) \o << " ", "|", " " >>

\* The separator pushed whether or not there is an end date.
WithDates_SeparatorAlways(output, start_date, end_date) ==
    LET s == IF start_date.some THEN push_datetime(start_date.val, output)
             ELSE Some(output)
    IN  IF ~s.some THEN None
        ELSE IF end_date.some
        THEN push_datetime(end_date.val, s.val \o << " ", "~", " " >>)
        ELSE Some(s.val \o << " ", "~", " " >>)

\* output after the two `if let` blocks, None where push_datetime panics.
WithDates(output, start_date, end_date) ==
    LET s == IF start_date.some THEN push_datetime(start_date.val, output)
             ELSE Some(output)
    IN  IF ~s.some THEN None
        ELSE IF end_date.some
        THEN push_datetime(end_date.val, s.val \o << " ", "~", " " >>)
        ELSE s

\* One pass through the loop body on todo, the record at index idx:
\* kind "error" (errors.push and continue), "line" (println!) or "panic".
ProcessRecord(todo, idx) ==
    LET properties == Index(todo, "properties")
        title == as_str(Index(IndexAt(Index(Index(properties, "Name"), "title"), 0),
                              "plain_text"))
        start_date == as_str(Index(Index(Index(properties, "Due"), "date"), "start"))
        end_date == as_str(Index(Index(Index(properties, "Due"), "date"), "end"))
        done == as_bool(Index(Index(properties, "Done"), "checkbox"))
        output == WithDates(LineHead(done.val, idx, title.val), start_date, end_date)
    IN  IF ~title.some THEN [kind |-> "error", text |-> TitleError(idx)]
        ELSE IF ~done.some THEN [kind |-> "error", text |-> DoneError(idx)]
        ELSE IF ~output.some THEN [kind |-> "panic", text |-> PanicText]
        ELSE [kind |-> "line", text |-> output.val]

Stdout(text) == [ch |-> "stdout", text |-> text]
Stderr(text) == [ch |-> "stderr", text |-> text]

\* The eprintln! calls after the loop.
ErrorReport(errs) ==
    IF errs # <<>>
    THEN << Stderr(Banner) >> \o [k \in 1..Len(errs) |-> Stderr(errs[k])]
    ELSE <<>>

\* The records of the response.
LongDate ==
    << "2", "0", "2", "4", "-", "0", "1", "-", "1", "5", "T", "0", "9", ":",
       "3", "0", ":", "0", "0", ".", "0", "0", "0", "Z" >>
ShortDate ==
    << "2", "0", "2", "4", "-", "0", "1", "-", "1", "5", "T", "0", "9", ":",
       "3", "0" >>
DateOnly == << "2", "0", "2", "4", "-", "0", "1", "-", "1", "5" >>

ShortTitle == << "a", "b" >>
LongTitle == [k \in 1..(TitleWidth + 1) |-> "w"]

Filler == [Tags |-> JNull]

BadNames ==
    { Filler,
      [Name |-> JObj([title |-> JArr(<<>>)])],
      [Name |-> JObj([title |-> JArr(<< JObj([plain_text |-> JNum(7)]) >>)])] }
GoodName ==
    [Name |-> JObj([title |-> JArr(<< JObj([plain_text |-> JStr(ShortTitle)]),
                                     JObj([plain_text |-> JStr(LongTitle)]) >>)])]
WideName ==
    [Name |-> JObj([title |-> JArr(<< JObj([plain_text |-> JStr(LongTitle)]) >>)])]
BadDones == { Filler, [Done |-> JObj([checkbox |-> JStr(<< "y" >>)])] }

DateObj(start, end) ==
    JObj((IF start.some THEN [start |-> start.val] ELSE Filler)
         @@ (IF end.some THEN [end |-> end.val] ELSE Filler))
StartVals == { None, Some(JNum(1)), Some(JStr(LongDate)), Some(JStr(ShortDate)),
               Some(JStr(DateOnly)) }
EndVals == { None, Some(JNull), Some(JStr(LongDate)) }
Dues ==
    { Filler, [Due |-> JObj([date |-> JNull])],
      [Due |-> JObj([date |-> DateObj(Some(JStr(LongDate)), Some(JStr(ShortDate)))])] }
    \cup { [Due |-> JObj([date |-> DateObj(s, e)])] : s \in StartVals, e \in EndVals }
DueAbsent == Filler
DueBoth ==
    [Due |-> JObj([date |-> DateObj(Some(JStr(LongDate)), Some(JStr(LongDate)))])]

Todo(name, done, due) == JObj([properties |-> JObj(name @@ done @@ due)])

\* A record that is no object; records whose title is invalid; records whose
\* title is valid and whose checkbox is not; records valid in both, with every
\* shape of Due.
TodoSet ==
    { JNull }
    \cup { Todo(n, Filler, DueAbsent) : n \in BadNames }
    \cup { Todo(n, [Done |-> JObj([checkbox |-> JBool(TRUE)])], DueBoth) : n \in BadNames }
    \cup { Todo(GoodName, d, u) : d \in BadDones, u \in {DueAbsent, DueBoth} }
    \cup { Todo(GoodName, [Done |-> JObj([checkbox |-> JBool(TRUE)])], u) : u \in Dues }
    \cup { Todo(WideName, [Done |-> JObj([checkbox |-> JBool(FALSE)])], DueAbsent) }

Responses ==
    { None, Some(JObj([object |-> JStr(<< "e" >>)])), Some(JObj([results |-> JNull])) }
    \cup { Some(JObj([results |-> JArr(ts)])) : ts \in SeqsUpTo(TodoSet, MaxTodos) }

\* process_todos is entered; parse_secrets and push_datetime are not running.
InitTodos ==
    /\ json \in Responses
    /\ i = 0
    /\ errors = <<>>
    /\ channel = <<>>
    /\ todos_pc = "start"
    /\ todos_ret = None
    /\ consumed = <<>> /\ db_url = None /\ api_key = None /\ secrets_ret = None
    /\ datetime = <<>> /\ buf = <<>> /\ dt_pc = "idle"

todos == as_array(Index(json.val, "results"))

\* res.json::<Value>()? fails: the body is no JSON.
BodyNotJson ==
    /\ todos_pc = "start"
    /\ ~json.some
    /\ todos_pc' = "returned"
    /\ todos_ret' = Some(Err("invalid JSON"))
    /\ UNCHANGED << json, i, errors, channel, secretsVars, dateVars >>

ResultsMissing ==
    /\ todos_pc = "start"
    /\ json.some
    /\ ~todos.some
    /\ todos_pc' = "returned"
    /\ todos_ret' =
         Some(Err("expected 'results' array field which is not present in the response"))
    /\ UNCHANGED << json, i, errors, channel, secretsVars, dateVars >>

EnterLoop ==
    /\ todos_pc = "start"
    /\ json.some
    /\ todos.some
    /\ todos_pc' = "loop"
    /\ UNCHANGED << json, i, errors, channel, todos_ret, secretsVars, dateVars >>

\* The loop body on the record at index i.
RecordError ==
    /\ todos_pc = "loop"
    /\ i < Len(todos.val)
    /\ ProcessRecord(todos.val[i + 1], i).kind = "error"
    /\ errors' = Append(errors, ProcessRecord(todos.val[i + 1], i).text)
    /\ i' = i + 1
    /\ UNCHANGED << json, channel, todos_pc, todos_ret, secretsVars, dateVars >>

RecordLine ==
    /\ todos_pc = "loop"
    /\ i < Len(todos.val)
    /\ ProcessRecord(todos.val[i + 1], i).kind = "line"
    /\ channel' = Append(channel, Stdout(ProcessRecord(todos.val[i + 1], i).text))
    /\ i' = i + 1
    /\ UNCHANGED << json, errors, todos_pc, todos_ret, secretsVars, dateVars >>

\* push_datetime panics: the process aborts, the panic message on stderr.
RecordPanic ==
    /\ todos_pc = "loop"
    /\ i < Len(todos.val)
    /\ ProcessRecord(todos.val[i + 1], i).kind = "panic"
    /\ channel' = Append(channel, Stderr(PanicText))
    /\ todos_pc' = "panicked"
    /\ UNCHANGED << json, i, errors, todos_ret, secretsVars, dateVars >>

\* The loop is over: the batched errors go to stderr and Ok(()) is returned.
ReportErrors ==
    /\ todos_pc = "loop"
    /\ i = Len(todos.val)
    /\ channel' = channel \o ErrorReport(errors)
    /\ todos_pc' = "returned"
    /\ todos_ret' = Some(Ok("()"))
    /\ UNCHANGED << json, i, errors, secretsVars, dateVars >>

NextTodos ==
    \/ BodyNotJson \/ ResultsMissing \/ EnterLoop
    \/ RecordError \/ RecordLine \/ RecordPanic \/ ReportErrors

SpecTodos == InitTodos /\ [][NextTodos]_vars

(***************************************************************************)
(* Properties of parse_secrets (checked under SpecSecrets).                *)
(***************************************************************************)
HasDelim(line) == \E k \in 1..Len(line) : line[k] = "="
KeyText(line) == SubSeq(line, 1, FindChar(line, "=") - 1)
ValueText(line) == SubSeq(line, FindChar(line, "=") + 1, Len(line))
HasKey(line, key) == HasDelim(line) /\ Trim(KeyText(line)) = key
Recognized(line) == HasKey(line, DB_URL) \/ HasKey(line, API_KEY)
Occurs(key) == \E k \in 1..Len(consumed) : HasKey(consumed[k], key)
LastWith(key) ==
    CHOOSE k \in 1..Len(consumed) :
        /\ HasKey(consumed[k], key)
        /\ \A j \in (k + 1)..Len(consumed) : ~HasKey(consumed[j], key)

EmptyValueAt(n) == Err(ErrMsg("value is empty at", <<>>, FILEPATH_PLACEHOLDER, n))
MissingDbUrl == Err(ErrMsg("DB_URL value not found in", <<>>, FILEPATH_PLACEHOLDER, 0))
MissingApiKey == Err(ErrMsg("API_KEY value not found in", <<>>, FILEPATH_PLACEHOLDER, 0))

\* The error a line produces on its own, None when it produces none: no
\* delimiter, an unrecognized key, or a recognized key with an empty value.
LineError(line, n) ==
    IF ~HasDelim(line)
    THEN Some(Err(ErrMsg("invalid line format at", <<>>, FILEPATH_PLACEHOLDER, n)))
    ELSE IF ~Recognized(line)
    THEN Some(Err(ErrMsg("unexpected key", KeyText(line), FILEPATH_PLACEHOLDER, n)))
    ELSE IF ValueText(line) = <<>>
    THEN Some(EmptyValueAt(n))
    ELSE None

\* The number of the first error-producing line read, 0 when there is none.
FirstErrorLine ==
    IF \E k \in 1..Len(consumed) : LineError(consumed[k], k).some
    THEN CHOOSE k \in 1..Len(consumed) :
             /\ LineError(consumed[k], k).some
             /\ \A j \in 1..(k - 1) : ~LineError(consumed[j], j).some
    ELSE 0

\* C1: every line read whose trimmed key is DB_URL or API_KEY and whose value
\* is empty after trimming (a value of whitespace only included) makes the
\* parse fail with "value is empty" at that line's 1-based number, and every
\* Secret returned has a db_url and an api_key that are non-empty after
\* trimming.
C1_TrimmedEmptyValueRejected ==
    /\ \A k \in 1..Len(consumed) :
         (Recognized(consumed[k]) /\ Trim(ValueText(consumed[k])) = <<>>)
             => secrets_ret = Some(EmptyValueAt(k))
    /\ (secrets_ret.some /\ secrets_ret.val.ok)
         => /\ Trim(secrets_ret.val.val.db_url) # <<>>
            /\ Trim(secrets_ret.val.val.api_key) # <<>>

\* C3: once a line without '=', with an unrecognized key or with an empty
\* value has been read, the parse has returned the error of the first such
\* line, with that line's 1-based number (and the key as written, for an
\* unexpected key), and it read nothing after that line.
C3_FailFastAtFirstErrorLine ==
    FirstErrorLine # 0
        => /\ secrets_ret = Some(LineError(consumed[FirstErrorLine], FirstErrorLine).val)
           /\ Len(consumed) = FirstErrorLine

C3_Witness ==
    /\ FirstErrorLine = 2
    /\ secrets_ret.some
    /\ ~secrets_ret.val.ok
    /\ secrets_ret.val.val.text = "unexpected key"
    /\ secrets_ret.val.val.line = 2

\* C4: when the stream ended, no line read produced an error and both keys
\* occurred, the parse returned the Secret whose db_url and api_key are the
\* trimmed text after the first '=' of the last DB_URL line and of the last
\* API_KEY line.
C4_LastOccurrenceWins ==
    (secrets_ret.some /\ FirstErrorLine = 0 /\ Occurs(DB_URL) /\ Occurs(API_KEY))
        => secrets_ret.val =
             Ok(Secret(Trim(ValueText(consumed[LastWith(DB_URL)])),
                       Trim(ValueText(consumed[LastWith(API_KEY)]))))

\* Three lines, API_KEY before the last DB_URL line, DB_URL twice with different
\* values, the first with whitespace around it, the second holding a further
\* '='.
C4_Witness ==
    /\ secrets_ret.some
    /\ secrets_ret.val.ok
    /\ Len(consumed) = 3
    /\ HasKey(consumed[1], DB_URL)
    /\ HasKey(consumed[2], API_KEY)
    /\ HasKey(consumed[3], DB_URL)
    /\ ValueText(consumed[1]) = << " ", "v", " " >>
    /\ ValueText(consumed[3]) = << "v", "=", "w" >>
    /\ secrets_ret.val.val.db_url = << "v", "=", "w" >>

\* C5: a missing-key error is returned only when every line was read without
\* a line error; when DB_URL never occurred the error is the DB_URL one, also
\* when API_KEY is absent too; the API_KEY one is returned exactly when DB_URL
\* occurred and API_KEY did not.
C5_MissingKeyOrder ==
    secrets_ret.some
        => LET r == secrets_ret.val
           IN  /\ (~r.ok /\ r \in {MissingDbUrl, MissingApiKey}) => FirstErrorLine = 0
               /\ (FirstErrorLine = 0 /\ ~Occurs(DB_URL)) => (~r.ok /\ r = MissingDbUrl)
               /\ (~r.ok /\ r = MissingApiKey)
                    <=> (FirstErrorLine = 0 /\ Occurs(DB_URL) /\ ~Occurs(API_KEY))

\* The empty stream: both keys absent, and DB_URL is the one reported.
C5_Witness ==
    /\ consumed = <<>>
    /\ secrets_ret = Some(MissingDbUrl)

(***************************************************************************)
(* Properties of push_datetime (checked under SpecDate).                   *)
(***************************************************************************)
Prefix(s, n) == SubSeq(s, 1, IF Len(s) < n THEN Len(s) ELSE n)

\* What the claim has push_datetime emit for dt.
Rendered(dt) ==
    IF \E k \in 1..Len(dt) : dt[k] = "T"
    THEN SubSeq(dt, 1, FindChar(dt, "T") - 1) \o << " " >>
             \o Prefix(SubSeq(dt, FindChar(dt, "T") + 1, Len(dt)), 8)
    ELSE dt

\* C2: push_datetime completes on every input, whatever the length of the part
\* after the first 'T'; it emits the input unchanged when there is no 'T', and
\* otherwise the text before the first 'T', one space and the first 8
\* characters of the text after it.
C2_PushDatetimeTotal ==
    dt_pc # "call"
        => /\ dt_pc = "returned"
           /\ \E b \in BufInits : buf = b \o Rendered(datetime)

(***************************************************************************)
(* Properties of process_todos (checked under SpecTodos).                  *)
(***************************************************************************)
PastResultsCheck ==
    /\ todos_pc \in {"loop", "returned", "panicked"}
    /\ json.some
    /\ todos.some
Ended == PastResultsCheck /\ todos_pc \in {"returned", "panicked"}
Records == todos.val

Select(seq, ch) == SelectSeq(seq, LAMBDA e : e.ch = ch)
ReportLines == [k \in 1..Len(Select(channel, "stdout")) |-> Select(channel, "stdout")[k].text]
ErrorLines == [k \in 1..Len(Select(channel, "stderr")) |-> Select(channel, "stderr")[k].text]

TitleOf(todo) ==
    as_str(Index(IndexAt(Index(Index(Index(todo, "properties"), "Name"), "title"), 0),
                 "plain_text"))
DoneOf(todo) == Index(Index(Index(todo, "properties"), "Done"), "checkbox")
StartOf(todo) == Index(Index(Index(Index(todo, "properties"), "Due"), "date"), "start")
EndOf(todo) == Index(Index(Index(Index(todo, "properties"), "Due"), "date"), "end")
ValidTitle(todo) == TitleOf(todo).some
ValidDone(todo) == DoneOf(todo).t = "bool"
Valid(todo) == ValidTitle(todo) /\ ValidDone(todo)

\* The 0-based positions, in order, of the valid and of the invalid records
\* among the first n.
ValidPositions(recs, n) ==
    SelectSeq([k \in 1..n |-> k - 1], LAMBDA p : Valid(recs[p + 1]))
InvalidPositions(recs, n) ==
    SelectSeq([k \in 1..n |-> k - 1], LAMBDA p : ~Valid(recs[p + 1]))

\* The message a record that fails extraction is to yield.
ExtractionError(todo, idx) ==
    IF ~ValidTitle(todo)
    THEN << "t", "o", "d", "o", " " >> \o Dec(idx) \o TitleErrorText
    ELSE << "t", "o", "d", "o", " " >> \o Dec(idx) \o DoneErrorText

\* C6: when process_todos has ended, the report lines written and the error
\* messages recorded are together as many as the records: each record gave
\* exactly one of the two.
C6_OneLineOrOneErrorPerRecord ==
    Ended => Len(ReportLines) + Len(errors) = Len(Records)

\* Whether line is a report line carrying idx: "[m] idx: ...".
CarriesIndex(line, idx) ==
    /\ Len(line) >= 6 + Len(Dec(idx))
    /\ SubSeq(line, 5, 4 + Len(Dec(idx))) = Dec(idx)
    /\ line[5 + Len(Dec(idx))] = ":"

\* C7: when process_todos has ended, the records with a valid title and a
\* valid Done checkbox each have their report line, carrying the record's
\* 0-based position, and the lines are in the order of their records, wherever
\* the failing records sit.
C7_FailingRecordSuppressesNothing ==
    Ended
        => LET valid == ValidPositions(Records, Len(Records))
           IN  /\ Len(ReportLines) = Len(valid)
               /\ \A k \in 1..Len(valid) : CarriesIndex(ReportLines[k], valid[k])

\* C8: when a run that got past the 'results' check has ended, no error
\* message was written before a report line, the banner was written once,
\* before the first error message, exactly when a record failed, the error
\* messages are in record order, and the function returned Ok(()).
C8_ErrorsBatchedNeverFatal ==
    Ended
        => LET failed == InvalidPositions(Records, Len(Records))
           IN  /\ todos_ret = Some(Ok("()"))
               /\ \A j, k \in 1..Len(channel) :
                    (channel[j].ch = "stderr" /\ channel[k].ch = "stdout") => k < j
               /\ IF failed = <<>>
                  THEN ErrorLines = <<>>
                  ELSE ErrorLines = << Banner >> \o
                         [k \in 1..Len(failed) |->
                             ExtractionError(Records[failed[k] + 1], failed[k])]

\* C9: the records read so far that have no valid title each recorded the
\* title message with their index, whatever their Done and Due; those with a
\* valid title and no valid Done checkbox each recorded the Done message; no
\* other record recorded anything, whatever its start and end dates are.
C9_ExtractionOrder ==
    PastResultsCheck
        => LET failed == InvalidPositions(Records, i)
           IN  errors = [k \in 1..Len(failed) |->
                            IF ~ValidTitle(Records[failed[k] + 1])
                            THEN TitleError(failed[k])
                            ELSE DoneError(failed[k])]

\* A record without a title whose Done and Due are fine, then a record with a
\* title and no checkbox: one message each, the title message for the first.
C9_Witness ==
    /\ PastResultsCheck
    /\ Len(Records) = 2
    /\ i = 2
    /\ ~ValidTitle(Records[1]) /\ ValidDone(Records[1])
    /\ as_str(StartOf(Records[1])).some
    /\ ValidTitle(Records[2]) /\ ~ValidDone(Records[2])
    /\ errors = << TitleError(0), DoneError(1) >>
    /\ ReportLines = <<>>

Spaces(n) == [k \in 1..n |-> " "]

\* The report line of a successfully extracted record, as the claim words it.
ExpectedLine(todo, idx) ==
    LET title == TitleOf(todo).val
        start == as_str(StartOf(todo))
        end == as_str(EndOf(todo))
    IN  << "[", (IF DoneOf(todo).v THEN "x" ELSE " "), "]", " " >> \o Dec(idx)
          \o << ":", " " >> \o title
          \o (IF Len(title) < 35 THEN Spaces(35 - Len(title)) ELSE <<>>)
          \o << " ", "|", " " >>
          \o (IF start.some THEN Rendered(start.val) ELSE <<>>)
          \o (IF end.some THEN << " ", "~", " " >> \o Rendered(end.val) ELSE <<>>)

NoDates(todo) == ~as_str(StartOf(todo)).some /\ ~as_str(EndOf(todo)).some

\* C10: every report line written is the line of its record: "[m] i: title | "
\* with the title padded to 35 characters and never cut, then the rendered
\* start date if there is one, then " ~ " and the rendered end date exactly
\* when there is an end date string; with neither date the line ends with
\* " | " and holds no '~'.
C10_ReportLineShape ==
    PastResultsCheck
        => LET valid == ValidPositions(Records, i)
           IN  /\ Len(ReportLines) = Len(valid)
               /\ \A k \in 1..Len(valid) :
                    LET todo == Records[valid[k] + 1]
                        line == ReportLines[k]
                    IN  /\ line = ExpectedLine(todo, valid[k])
                        /\ NoDates(todo)
                             => /\ SubSeq(line, Len(line) - 2, Len(line)) = << " ", "|", " " >>
                                /\ \A c \in 1..Len(line) : line[c] # "~"

\* Two lines written: an unfinished record with a wide title and no Due, and a
\* finished one with a start and an end date.
C10_Witness ==
    /\ PastResultsCheck
    /\ Len(ReportLines) = 2
    /\ NoDates(Records[1]) /\ Len(TitleOf(Records[1]).val) > 35
    /\ ~DoneOf(Records[1]).v
    /\ as_str(StartOf(Records[2])).some /\ as_str(EndOf(Records[2])).some
    /\ \E c \in 1..Len(ReportLines[2]) : ReportLines[2][c] = "~"
====
